---- MODULE Spec2Model ----
(***************************************************************************)
(* A model of the gomcserver process supervisor (package gomcserver):      *)
(* the Server object, its Start/Stop/SendCommand operations, the           *)
(* signal-dispatch goroutines that setupSignalHandlers starts, and the     *)
(* operating-system objects they act on (the child processes, the server   *)
(* directory, the signal channel).                                         *)
(*                                                                         *)
(* Threads: thread Caller is the program that owns the Server; threads     *)
(* 1..MaxDisp are the goroutines created by setupSignalHandlers, in        *)
(* creation order.  Nothing in the Go code is guarded by a lock, so the *)
(* operations interleave at the granularity of their reads and writes of   *)
(* the Server's fields; statements that touch no shared field are merged   *)
(* into the step that precedes them.                                       *)
(*                                                                         *)
(* Operating system: a signal sent to a process that is alive succeeds; a  *)
(* signal sent to a process that has exited reports an error.  A process   *)
(* may exit at any moment (after SIGTERM, or by itself).                   *)
(***************************************************************************)
EXTENDS Integers, Sequences, FiniteSets, TLC

\* ---------------------------------------------------------------- bounds
\* Calls (Start, Stop, SendCommand together) the owning program makes while
\* signals arrive, and the signals the operating system delivers.
MaxCalls == 1
MaxSignals == 1
\* Calls the owning program makes when no signal arrives.
MaxSeqCalls == 3
\* Longest command text handed to SendCommand.
MaxCmdLen == 1

\* ------------------------------------------------------ program constants
maxWait == 30
interval == 1
SignalBuffer == 1
DefaultPort == 25565
DefaultMemoryMB == 2048
MinPort == 1
MaxPort == 65535
MinMemoryMB == 512
MemoryHeadroomMB == 512
MemoryStepMB == 512
NoPid == -1

\* ------------------------------------------------------------------ state
VARIABLES
    \* fields of Server
    running, pid, cmd, stdinPipe, Name, Port, MemoryMB, EULAAccepted, Props,
    signals,
    \* the process-wide signal registration (signal.Notify)
    notified,
    \* exec.Cmd objects: cmdProcess[k] is cmd k's Process (its pid), 0 for nil
    cmdProcess,
    \* operating system: processes by pid and the signals sent to them; the
    \* bytes written to each cmd's stdin pipe
    procState, cmdStdin, procSig,
    \* the machine and the server directory
    totalMB, dirExists, eulaFile, propsFile, jarFile,
    \* threads: position, Stop's local `waited`, the signal being handled,
    \* the StartOptions captured by a dispatch goroutine's closure
    pc, waited, dsig, topts,
    \* a nil-pointer dereference ended the program
    crashed,
    \* observation: each thread's current or last call and its result, what
    \* that call did, what a dispatch goroutine did for the signal it took,
    \* the options the last artifact fetch was given
    res, clog, dcount, fetched, lastCmd,
    \* calls the owning program may still make, signals still to arrive
    callsLeft, sigsLeft,
    \* observation: the argument of the last SetDifficulty, SetWeather or
    \* SetTime
    lastArg,
    \* the field PlayerCount and the registered callbacks (the kinds whose
    \* callback field is not nil)
    PlayerCount, listeners,
    \* per exec.Cmd, its stdout pipe: whether this program still holds the
    \* write end, the text written and not yet read, everything written
    stdoutPipes,
    \* per exec.Cmd, the goroutine listenToStdout: its position, the chunk
    \* it is handling, the value it loaded from PlayerCount, the chunks it
    \* handed to the stdout callback
    readers,
    \* observation: the playerJoin/playerLeave callbacks invoked, in order
    events,
    \* lines the processes may still write
    writesLeft,
    \* what the server directory holds besides eula.txt, server.properties
    \* and server.jar, by path relative to it; the directory RestoreBackup
    \* is pointed at; the wall clock in seconds
    tree, tree2, now,
    \* the archive operations (backup.CreateBackup) begun so far
    tasks,
    \* observation: the archive the last RestoreBackup was given
    lastRestore

srvVars == <<running, pid, cmd, stdinPipe, Name, Port, MemoryMB, EULAAccepted, Props>>
osVars == <<cmdProcess, procState, cmdStdin, procSig>>
fsVars == <<totalMB, dirExists, eulaFile, propsFile, jarFile>>
sigVars == <<signals, notified>>
thrVars == <<pc, waited, dsig, topts>>
obsVars == <<res, clog, dcount, fetched, lastCmd>>
\* the state beyond the process supervision
logVars == <<PlayerCount, listeners, stdoutPipes, readers, events, writesLeft>>
bakVars == <<tree, tree2, now, tasks, lastRestore>>
extVars == <<lastArg, logVars, bakVars>>
vars == <<srvVars, osVars, fsVars, sigVars, thrVars, crashed, obsVars, callsLeft, sigsLeft,
          extVars>>

\* every Start that gets as far as setupSignalHandlers adds a goroutine
MaxDisp == IF MaxCalls + MaxSignals > MaxSeqCalls THEN MaxCalls + MaxSignals ELSE MaxSeqCalls
Dispatchers == 1..MaxDisp
Caller == MaxDisp + 1
Threads == 1..Caller

\* os.Signal values the supervisor subscribes to
Sigs == {"SIGINT", "SIGTERM", "SIGHUP"}

\* *StartOptions the caller passes: nil, or a struct whose UseManifestCache
\* points to false.  After applyDefaultStartOptions the field is
\* "true" or "false".
NilOpts == "nil"
CallerOpts == {NilOpts, "false"}

\* characters of a command text
Chars == {"s", "\n"}
RECURSIVE SeqsUpTo(_)
SeqsUpTo(n) == IF n = 0 THEN {<<>>}
               ELSE LET S == SeqsUpTo(n - 1)
                    IN S \cup {Append(s, c) : s \in {x \in S : Len(x) = n - 1}, c \in Chars}
Texts == SeqsUpTo(MaxCmdLen)

\* a properties mapping; the server.properties file (absent, or a mapping)
EmptyProps == [k \in {} |-> ""]
NoFile == [exists |-> FALSE, map |-> EmptyProps]

NoCall == [op |-> "none", err |-> "nil"]
\* what a call did: SIGTERM sent, a probe found the process gone, the kill
\* (none, sent, failed), the process it started, the process Stop
\* addressed at its entry, s.running at its entry
NoLog == [term |-> FALSE, dead |-> FALSE, kill |-> "none", spawned |-> 0, target |-> 0,
          wasRunning |-> FALSE]
NoCount == [stops |-> 0, starts |-> 0, opts |-> "none"]

\* a stdout pipe and a reader goroutine as LaunchCmd makes them
NoPipe == [held |-> TRUE, buf |-> <<>>, written |-> <<>>]
NoReader == [pc |-> "read", msg |-> <<>>, reg |-> 0, fwd |-> <<>>]

\* ---------------------------------------------------------------- getters
IsRunning == running

GetPID == IF cmd # 0 /\ cmdProcess[cmd] # 0 THEN cmdProcess[cmd] ELSE NoPid

\* processes that are alive
Alive == {p \in 1..Len(procState) : procState[p] = "alive"}

\* ------------------------------------------------------------------- Init
NewServer(port, mem, eula, total, calls, sigs, writes, ls) ==
    /\ running = FALSE /\ pid = 0 /\ cmd = 0 /\ stdinPipe = 0
    /\ Name = "" /\ Port = port /\ MemoryMB = mem /\ EULAAccepted = eula
    /\ Props = EmptyProps
    /\ signals = <<>> /\ notified = FALSE
    /\ cmdProcess = <<>> /\ procState = <<>> /\ cmdStdin = <<>> /\ procSig = <<>>
    /\ totalMB = total /\ dirExists = FALSE /\ eulaFile = FALSE
    /\ propsFile = NoFile /\ jarFile = FALSE
    /\ pc = [t \in Threads |-> IF t = Caller THEN "idle" ELSE "none"]
    /\ waited = [t \in Threads |-> 0]
    /\ dsig = [t \in Threads |-> "none"]
    /\ topts = [t \in Threads |-> NilOpts]
    /\ crashed = FALSE
    /\ res = [t \in Threads |-> NoCall]
    /\ clog = [t \in Threads |-> NoLog]
    /\ dcount = [t \in Threads |-> NoCount]
    /\ fetched = "none" /\ lastCmd = <<>>
    /\ callsLeft = calls /\ sigsLeft = sigs
    /\ lastArg = "none"
    /\ PlayerCount = 0 /\ listeners = ls
    /\ stdoutPipes = <<>> /\ readers = <<>> /\ events = <<>>
    /\ writesLeft = writes
    /\ tree = <<>> /\ tree2 = <<>> /\ now = 1 /\ tasks = <<>>
    /\ lastRestore = [store |-> "", path |-> <<>>]

\* The machine's memory in the concurrent runs.
TotalMemoryMB == 8192

\* NewServer's defaults, on a machine with TotalMemoryMB of memory.
Init == NewServer(DefaultPort, DefaultMemoryMB, FALSE, TotalMemoryMB, MaxCalls, MaxSignals, 0, {})

\* The owning program set the exported fields Port and MemoryMB (and may
\* have called AcceptEULA) before its first call; no signal arrives.
Ports == {0, 1, 25565, 65535, 65536}
Memories == {0, 511, 512, 768, 2048, 7680, 7681, 8192}
Totals == {1024, 8192}
InitSeq ==
    \E p \in Ports, m \in Memories, e \in BOOLEAN, total \in Totals :
        NewServer(p, m, e, total, MaxSeqCalls, 0, 0, {})

\* A dispatch loop that goes back to Start whenever the signal is SIGHUP,
\* also after the Start it has just tried.
AfterCallRetrying(t, op, sig) ==
    IF t = Caller THEN "idle"
    ELSE IF sig = "SIGHUP" THEN "restart"
    ELSE "recv"

\* ------------------------------------------------- returning from a call
\* Where thread t continues when its call of op returns: the caller is free
\* again; a dispatch goroutine follows the switch of setupSignalHandlers
\* (after Stop, SIGHUP goes on to Start; everything else ends the loop body).
AfterCall(t, op, sig) ==
    IF t = Caller THEN "idle"
    ELSE IF op = "Stop" /\ sig = "SIGHUP" THEN "restart"
    ELSE "recv"

\* ------------------------------------------------------ Start: preparation
applyDefaultStartOptions(o) == IF o = "false" THEN "false" ELSE "true"

\* validateConfig without the multiple-of-512 check.
validateConfigAnyStep(totalErr) ==
    IF Port < MinPort \/ Port > MaxPort THEN "ErrPort"
    ELSE IF totalErr THEN "ErrTotalMemory"
    ELSE IF MemoryMB < MinMemoryMB \/ MemoryMB > totalMB - MemoryHeadroomMB
        THEN "ErrMemoryRange"
    ELSE IF ~EULAAccepted THEN "ErrEULA"
    ELSE IF running THEN "ErrAlreadyRunning"
    ELSE "nil"

\* validateConfig's verdict; totalErr: getTotalMemoryMB reported an error.
validateConfig(totalErr) ==
    IF Port < MinPort \/ Port > MaxPort THEN "ErrPort"
    ELSE IF totalErr THEN "ErrTotalMemory"
    ELSE IF MemoryMB < MinMemoryMB \/ MemoryMB > totalMB - MemoryHeadroomMB
        THEN "ErrMemoryRange"
    ELSE IF MemoryMB % MemoryStepMB # 0 THEN "ErrMemoryMultiple"
    ELSE IF ~EULAAccepted THEN "ErrEULA"
    ELSE IF running THEN "ErrAlreadyRunning"
    ELSE "nil"

\* the errors validateConfig reports
ConfigErrors == {"ErrPort", "ErrTotalMemory", "ErrMemoryRange", "ErrMemoryMultiple",
                 "ErrEULA", "ErrAlreadyRunning"}

generateServerName == "generated"

\* The text of a properties file is a sequence of pieces, each a string
\* that is never split: a word, the separator " = ", the backslash and the
\* line end.  A key is one word; a value is a sequence of pieces.
Separator == " = "
Backslash == "\\"
LineEnd == "\n"

\* The words of a properties file, in an order for (*Properties).String to
\* go through the keys.  No text considered has a backslash at the end of a
\* line, so the mapping read back does not depend on the order of the lines.
Words == <<"a", "b", "creative", "difficulty", "easy", "gamemode", "hard", "motd", "normal",
           "peaceful", "survival">>
WordRank(w) == CHOOSE i \in 1..Len(Words) : Words[i] = w

\* (*Properties).String, as line 421 uses it: for every key the line
\* "key = value" with the value's text as it is.
RECURSIVE PropertiesString(_, _)
PropertiesString(m, keys) ==
    IF keys = {} THEN <<>>
    ELSE LET k == CHOOSE x \in keys : \A y \in keys : WordRank(x) <= WordRank(y)
         IN <<k, Separator>> \o m[k] \o <<LineEnd>> \o PropertiesString(m, keys \ {k})

\* The lexer of (*Properties).Load, line 409, in a value: a backslash
\* before a line end joins the next line, a backslash before anything else
\* is dropped, the line end closes the value.  The value read so far is
\* acc; the result is the value and the text after it.
RECURSIVE LexValue(_, _)
LexValue(text, acc) ==
    IF text = <<>> THEN [value |-> acc, rest |-> <<>>]
    ELSE IF Head(text) = LineEnd THEN [value |-> acc, rest |-> Tail(text)]
    ELSE IF Head(text) = Backslash
        THEN IF Len(text) = 1 THEN [value |-> acc, rest |-> <<>>]
             ELSE IF text[2] = LineEnd THEN LexValue(SubSeq(text, 3, Len(text)), acc)
             ELSE LexValue(SubSeq(text, 3, Len(text)), Append(acc, text[2]))
    ELSE LexValue(Tail(text), Append(acc, Head(text)))

\* (*Properties).Load, line 409: the mapping a text is read as, on top of
\* m.  A line is a key, the separator if there is one, and the value; a
\* key that comes again replaces the earlier one.
RECURSIVE PropertiesLoad(_, _)
PropertiesLoad(text, m) ==
    IF text = <<>> THEN m
    ELSE IF Head(text) = LineEnd THEN PropertiesLoad(Tail(text), m)
    ELSE LET key == Head(text)
             after == IF Len(text) > 1 /\ text[2] = Separator
                      THEN SubSeq(text, 3, Len(text)) ELSE Tail(text)
             v == LexValue(after, <<>>)
         IN PropertiesLoad(v.rest,
                [k \in (DOMAIN m) \cup {key} |-> IF k = key THEN v.value ELSE m[k]])

\* writeProperties, lines 406-421: the file's mapping overwritten with the
\* in-memory one, turned into text by String and written; the file is
\* kept as the mapping Load reads from it.
writeProperties(file, props) ==
    LET merged == [k \in (DOMAIN file.map) \cup (DOMAIN props) |->
                      IF k \in DOMAIN props THEN props[k] ELSE file.map[k]]
    IN [exists |-> TRUE,
        map |-> PropertiesLoad(PropertiesString(merged, DOMAIN merged), EmptyProps)]

\* What can go wrong outside the program during the preparation.
PrepFailures == {"none", "mkdir", "totalmem", "eula", "props", "download"}

\* The error the preparation of Start ends with, "nil" for none:
\* ensureDirectory, then prepare (validateConfig, writeEULA,
\* writeProperties, DownloadServerJar), each returning at its first error.
prepare(f) ==
    IF ~dirExists /\ f = "mkdir" THEN "ErrMkdir"
    ELSE IF validateConfig(f = "totalmem") # "nil" THEN validateConfig(f = "totalmem")
    ELSE IF f = "eula" THEN "ErrWriteEULA"
    ELSE IF f = "props" THEN "ErrWriteProperties"
    ELSE IF f = "download" THEN "ErrDownload"
    ELSE "nil"

\* The first dispatch goroutine not yet created.
NewDispatcher == CHOOSE d \in Dispatchers : pc[d] = "none" /\ \A e \in 1..(d - 1) : pc[e] # "none"

\* Start, lines 152-159, by thread t with options o: ensureDirectory,
\* applyDefaultStartOptions, prepare, setupSignalHandlers.
StartPrepare(t, o, f) ==
    LET opts == applyDefaultStartOptions(o)
        err == prepare(f)
        validated == err \notin ({"ErrMkdir"} \cup ConfigErrors)
        d == NewDispatcher
    IN
    /\ f = "mkdir" => ~dirExists
    /\ dirExists' = (dirExists \/ err # "ErrMkdir")
    /\ Name' = IF err # "ErrMkdir" /\ Name = "" THEN generateServerName ELSE Name
    /\ eulaFile' = (eulaFile \/ (validated /\ err # "ErrWriteEULA"))
    /\ propsFile' = IF validated /\ err \notin {"ErrWriteEULA", "ErrWriteProperties"}
                    THEN writeProperties(propsFile, Props) ELSE propsFile
    /\ jarFile' = (jarFile \/ err = "nil")
    /\ fetched' = IF validated /\ err \notin {"ErrWriteEULA", "ErrWriteProperties"}
                  THEN opts ELSE fetched
    /\ notified' = (notified \/ err = "nil")
    /\ IF err = "nil"
       THEN /\ pc' = [pc EXCEPT ![t] = "launch", ![d] = "recv"]
            /\ topts' = [topts EXCEPT ![d] = opts]
       ELSE /\ pc' = [pc EXCEPT ![t] = AfterCall(t, "Start", dsig[t])]
            /\ UNCHANGED topts
    /\ res' = [res EXCEPT ![t] = [op |-> "Start", err |-> IF err = "nil" THEN "pending" ELSE err]]
    /\ clog' = [clog EXCEPT ![t] = [NoLog EXCEPT !.wasRunning = running]]
    /\ UNCHANGED <<running, pid, cmd, stdinPipe, Port, MemoryMB, EULAAccepted, Props>>
    /\ UNCHANGED <<osVars, totalMB, signals, waited, dsig, crashed, lastCmd, sigsLeft, extVars>>

\* The owning program calls Start(o).
CallStart(o, f) ==
    /\ ~crashed /\ pc[Caller] = "idle" /\ callsLeft > 0
    /\ callsLeft' = callsLeft - 1
    /\ StartPrepare(Caller, o, f)
    /\ UNCHANGED dcount

\* --------------------------------------------------- Start: launchProcess
PipeFailures == {"none", "stdout", "stderr", "stdin"}

\* launchProcess, lines 300-319: a new exec.Cmd replaces s.cmd, then its
\* three pipes are made; the stdin pipe is stored last.
LaunchCmd(t, f) ==
    LET k == Len(cmdProcess) + 1 IN
    /\ ~crashed /\ pc[t] = "launch"
    /\ cmd' = k
    /\ cmdProcess' = Append(cmdProcess, 0)
    /\ cmdStdin' = Append(cmdStdin, <<>>)
    /\ stdoutPipes' = Append(stdoutPipes, [NoPipe EXCEPT !.held = (f # "stdout")])
    /\ readers' = Append(readers, [NoReader EXCEPT !.pc = IF f = "stdout" THEN "none" ELSE "read"])
    /\ IF f = "none"
       THEN /\ stdinPipe' = k
            /\ pc' = [pc EXCEPT ![t] = "spawn"]
            /\ UNCHANGED res
       ELSE /\ UNCHANGED stdinPipe
            /\ pc' = [pc EXCEPT ![t] = AfterCall(t, "Start", dsig[t])]
            /\ res' = [res EXCEPT ![t] = [op |-> "Start", err |-> "ErrPipe"]]
    /\ UNCHANGED <<running, pid, Name, Port, MemoryMB, EULAAccepted, Props>>
    /\ UNCHANGED <<procState, procSig, fsVars, sigVars, waited, dsig, topts, crashed>>
    /\ UNCHANGED <<clog, dcount, fetched, lastCmd, callsLeft, sigsLeft>>
    /\ UNCHANGED <<lastArg, PlayerCount, listeners, events, writesLeft, bakVars>>

\* launchProcess with s.running set before s.cmd.Start() is tried.
LaunchSpawnMarkedFirst(t, ok) ==
    LET p == Len(procState) + 1
        err == IF cmdProcess[cmd] # 0 THEN "ErrAlreadyStarted"
               ELSE IF ok THEN "pending" ELSE "ErrSpawn"
    IN
    /\ ~crashed /\ pc[t] = "spawn"
    /\ running' = TRUE
    /\ procState' = IF err = "pending" THEN Append(procState, "alive") ELSE procState
    /\ procSig' = IF err = "pending" THEN Append(procSig, {}) ELSE procSig
    /\ cmdProcess' = IF err = "pending" THEN [cmdProcess EXCEPT ![cmd] = p] ELSE cmdProcess
    /\ clog' = IF err = "pending" THEN [clog EXCEPT ![t].spawned = p] ELSE clog
    /\ pc' = [pc EXCEPT ![t] = IF err = "pending" THEN "mark" ELSE AfterCall(t, "Start", dsig[t])]
    /\ res' = [res EXCEPT ![t] = [op |-> "Start", err |-> err]]
    /\ stdoutPipes' = IF err = "ErrAlreadyStarted" THEN stdoutPipes
                      ELSE [stdoutPipes EXCEPT ![cmd].held = FALSE]
    /\ UNCHANGED <<pid, cmd, stdinPipe, Name, Port, MemoryMB, EULAAccepted, Props>>
    /\ UNCHANGED <<cmdStdin, fsVars, sigVars, waited, dsig, topts, crashed>>
    /\ UNCHANGED <<dcount, fetched, lastCmd, callsLeft, sigsLeft>>
    /\ UNCHANGED <<lastArg, PlayerCount, listeners, readers, events, writesLeft, bakVars>>

\* launchProcess, line 321: s.cmd.Start().  A Cmd that already has a
\* Process refuses; otherwise the operating system starts the process or
\* reports an error (ok says which), and either way this program's copies
\* of the child's pipe ends are closed.
LaunchSpawn(t, ok) ==
    LET p == Len(procState) + 1 IN
    /\ ~crashed /\ pc[t] = "spawn"
    /\ IF cmdProcess[cmd] # 0
       THEN /\ pc' = [pc EXCEPT ![t] = AfterCall(t, "Start", dsig[t])]
            /\ res' = [res EXCEPT ![t] = [op |-> "Start", err |-> "ErrAlreadyStarted"]]
            /\ UNCHANGED <<cmdProcess, procState, procSig, clog, stdoutPipes>>
       ELSE IF ok
       THEN /\ procState' = Append(procState, "alive")
            /\ procSig' = Append(procSig, {})
            /\ cmdProcess' = [cmdProcess EXCEPT ![cmd] = p]
            /\ clog' = [clog EXCEPT ![t].spawned = p]
            /\ pc' = [pc EXCEPT ![t] = "mark"]
            /\ stdoutPipes' = [stdoutPipes EXCEPT ![cmd].held = FALSE]
            /\ UNCHANGED res
       ELSE /\ pc' = [pc EXCEPT ![t] = AfterCall(t, "Start", dsig[t])]
            /\ res' = [res EXCEPT ![t] = [op |-> "Start", err |-> "ErrSpawn"]]
            /\ stdoutPipes' = [stdoutPipes EXCEPT ![cmd].held = FALSE]
            /\ UNCHANGED <<cmdProcess, procState, procSig, clog>>
    /\ UNCHANGED <<srvVars, cmdStdin, fsVars, sigVars, waited, dsig, topts, crashed>>
    /\ UNCHANGED <<dcount, fetched, lastCmd, callsLeft, sigsLeft>>
    /\ UNCHANGED <<lastArg, PlayerCount, listeners, readers, events, writesLeft, bakVars>>

\* launchProcess, lines 325-329: running is set, then the pid is read
\* through s.cmd.Process, a nil pointer if another launchProcess replaced
\* s.cmd in between.
LaunchMark(t) ==
    /\ ~crashed /\ pc[t] = "mark"
    /\ running' = TRUE
    /\ IF cmdProcess[cmd] = 0
       THEN /\ crashed' = TRUE
            /\ UNCHANGED <<pid, pc, res>>
       ELSE /\ pid' = cmdProcess[cmd]
            /\ pc' = [pc EXCEPT ![t] = AfterCall(t, "Start", dsig[t])]
            /\ res' = [res EXCEPT ![t] = [op |-> "Start", err |-> "nil"]]
            /\ UNCHANGED crashed
    /\ UNCHANGED <<cmd, stdinPipe, Name, Port, MemoryMB, EULAAccepted, Props>>
    /\ UNCHANGED <<osVars, fsVars, sigVars, waited, dsig, topts>>
    /\ UNCHANGED <<clog, dcount, fetched, lastCmd, callsLeft, sigsLeft, extVars>>

\* ------------------------------------------------------------------- Stop
\* Stop's guards without the test of s.running.
stopGuardHandleOnly ==
    IF cmd = 0 \/ cmdProcess[cmd] = 0 THEN "ErrNoProcess" ELSE "nil"

\* Stop's guards, lines 165-170.
stopGuard ==
    IF ~running THEN "ErrNotRunning"
    ELSE IF cmd = 0 \/ cmdProcess[cmd] = 0 THEN "ErrNoProcess"
    ELSE "nil"

\* Stop, lines 165-178, by thread t (handling signal sig, "none" for the
\* caller): the two guards, then SIGTERM to s.cmd.Process.
StopEntry(t, sig) ==
    LET g == stopGuard
        p == cmdProcess[cmd]
        sent == g = "nil" /\ procState[p] = "alive"
        err == IF g # "nil" THEN g ELSE IF sent THEN "pending" ELSE "ErrSigterm"
    IN
    /\ waited' = [waited EXCEPT ![t] = 0]
    /\ procSig' = IF sent THEN [procSig EXCEPT ![p] = @ \cup {"SIGTERM"}] ELSE procSig
    /\ pc' = [pc EXCEPT ![t] = IF sent THEN "poll" ELSE AfterCall(t, "Stop", sig)]
    /\ res' = [res EXCEPT ![t] = [op |-> "Stop", err |-> err]]
    /\ clog' = [clog EXCEPT ![t] = [NoLog EXCEPT !.term = sent,
                                                 !.target = IF g = "nil" THEN p ELSE 0,
                                                 !.wasRunning = running]]
    /\ UNCHANGED <<srvVars, cmdProcess, procState, cmdStdin, fsVars, notified, topts, crashed>>
    /\ UNCHANGED <<fetched, lastCmd, sigsLeft, extVars>>

\* The owning program calls Stop().
CallStop ==
    /\ ~crashed /\ pc[Caller] = "idle" /\ callsLeft > 0
    /\ callsLeft' = callsLeft - 1
    /\ StopEntry(Caller, dsig[Caller])
    /\ UNCHANGED <<signals, dsig, dcount>>

\* A loop that returns on the first failed probe without clearing the state.
stopPollOutcomeKeepsState(t, probeErr) ==
    IF probeErr
    THEN [running |-> running, pid |-> pid, err |-> "nil", waited |-> 0]
    ELSE [running |-> running, pid |-> pid, err |-> "pending", waited |-> waited[t] + interval]

\* Stop, lines 181-187: what one turn of the loop does with the probe's
\* answer (probeErr: Signal(0) reported an error).
stopPollOutcome(t, probeErr) ==
    IF probeErr
    THEN [running |-> FALSE, pid |-> NoPid, err |-> "nil", waited |-> 0]
    ELSE [running |-> running, pid |-> pid, err |-> "pending", waited |-> waited[t] + interval]

\* Stop, lines 180-188, one turn of the loop: the liveness probe
\* s.cmd.Process.Signal(0), and either the return or the sleep.
StopPoll(t) ==
    LET p == cmdProcess[cmd]
        o == stopPollOutcome(t, procState[p] # "alive")
    IN
    /\ ~crashed /\ pc[t] = "poll" /\ waited[t] < maxWait
    /\ IF p = 0
       THEN /\ crashed' = TRUE
            /\ UNCHANGED <<running, pid, pc, waited, res, clog>>
       ELSE /\ running' = o.running
            /\ pid' = o.pid
            /\ waited' = [waited EXCEPT ![t] = o.waited]
            /\ res' = [res EXCEPT ![t] = [op |-> "Stop", err |-> o.err]]
            /\ pc' = [pc EXCEPT ![t] = IF o.err = "pending" THEN "poll"
                                       ELSE AfterCall(t, "Stop", dsig[t])]
            /\ clog' = [clog EXCEPT ![t].dead = (procState[p] # "alive")]
            /\ UNCHANGED crashed
    /\ UNCHANGED <<cmd, stdinPipe, Name, Port, MemoryMB, EULAAccepted, Props>>
    /\ UNCHANGED <<osVars, fsVars, sigVars, dsig, topts>>
    /\ UNCHANGED <<dcount, fetched, lastCmd, callsLeft, sigsLeft, extVars>>

\* A Stop that marks the server stopped whatever Kill() answered.
stopKillOutcomeAlwaysStops(killErr) ==
    [running |-> FALSE, pid |-> NoPid, err |-> IF killErr THEN "ErrKill" ELSE "nil"]

\* Stop, lines 190-196: what follows Kill()'s answer.
stopKillOutcome(killErr) ==
    IF killErr
    THEN [running |-> running, pid |-> pid, err |-> "ErrKill"]
    ELSE [running |-> FALSE, pid |-> NoPid, err |-> "nil"]

\* Stop, lines 190-196: the loop ran out; s.cmd.Process.Kill().
StopKill(t) ==
    LET p == cmdProcess[cmd]
        killErr == procState[p] # "alive"
        o == stopKillOutcome(killErr)
    IN
    /\ ~crashed /\ pc[t] = "poll" /\ waited[t] >= maxWait
    /\ IF p = 0
       THEN /\ crashed' = TRUE
            /\ UNCHANGED <<running, pid, pc, waited, res, clog, procState, procSig>>
       ELSE /\ procState' = [procState EXCEPT ![p] = "exited"]
            /\ procSig' = IF killErr THEN procSig
                          ELSE [procSig EXCEPT ![p] = @ \cup {"SIGKILL"}]
            /\ running' = o.running
            /\ pid' = o.pid
            /\ waited' = [waited EXCEPT ![t] = 0]
            /\ pc' = [pc EXCEPT ![t] = AfterCall(t, "Stop", dsig[t])]
            /\ res' = [res EXCEPT ![t] = [op |-> "Stop", err |-> o.err]]
            /\ clog' = [clog EXCEPT ![t].kill = IF killErr THEN "failed" ELSE "sent"]
            /\ UNCHANGED crashed
    /\ UNCHANGED <<cmd, stdinPipe, Name, Port, MemoryMB, EULAAccepted, Props>>
    /\ UNCHANGED <<cmdProcess, cmdStdin, fsVars, sigVars, dsig, topts>>
    /\ UNCHANGED <<dcount, fetched, lastCmd, callsLeft, sigsLeft, extVars>>

\* ------------------------------------------------------------ SendCommand
\* The command text without its line end.
CommandLineBare(text) == text

\* What SendCommand hands to io.WriteString
CommandLine(text) == text \o <<"\n">>

\* The owning program calls SendCommand(text), lines 200-209.  The write
\* fails when the process at the other end of the pipe has exited.
sendCommand(op, text) ==
    LET p == cmdProcess[stdinPipe]
        err == IF ~running THEN "ErrNotRunning"
               ELSE IF stdinPipe = 0 THEN "ErrNoStdin"
               ELSE IF p # 0 /\ procState[p] # "alive" THEN "ErrWrite"
               ELSE "nil"
    IN
    /\ ~crashed /\ pc[Caller] = "idle" /\ callsLeft > 0
    /\ callsLeft' = callsLeft - 1
    /\ lastCmd' = text
    /\ res' = [res EXCEPT ![Caller] = [op |-> op, err |-> err]]
    /\ cmdStdin' = IF err = "nil"
                   THEN [cmdStdin EXCEPT ![stdinPipe] = @ \o CommandLine(text)]
                   ELSE cmdStdin
    /\ UNCHANGED <<srvVars, cmdProcess, procState, procSig, fsVars, sigVars, thrVars, crashed>>
    /\ UNCHANGED <<clog, dcount, fetched, sigsLeft>>

SendCommand(text) == sendCommand("SendCommand", text) /\ UNCHANGED extVars

\* ------------------------------------------ SetDifficulty, SetWeather, SetTime
\* the accepted values, lines 224, 234 and 243
Difficulties == {"peaceful", "easy", "normal", "hard"}
Weathers == {"clear", "rain", "thunder"}
Times == {"day", "night", "noon", "midnight"}

\* the strings the owning program passes to the three operations
Values == Difficulties \cup Weathers \cup Times \cup {"", "Easy", "sunny"}

\* SetProperty, lines 127-132: the in-memory mapping with key set to value
SetProperty(key, value) ==
    [k \in (DOMAIN Props) \cup {key} |-> IF k = key THEN value ELSE Props[k]]

\* The owning program calls SetProperty(key, value).
CallSetProperty(key, value) ==
    /\ ~crashed /\ pc[Caller] = "idle" /\ callsLeft > 0
    /\ callsLeft' = callsLeft - 1
    /\ Props' = SetProperty(key, value)
    /\ res' = [res EXCEPT ![Caller] = [op |-> "SetProperty", err |-> "nil"]]
    /\ UNCHANGED <<running, pid, cmd, stdinPipe, Name, Port, MemoryMB, EULAAccepted>>
    /\ UNCHANGED <<osVars, fsVars, sigVars, thrVars, crashed>>
    /\ UNCHANGED <<clog, dcount, fetched, lastCmd, sigsLeft, extVars>>

\* The owning program calls GetProperty(key), lines 135-140; the result
\* records whether the key is set.
CallGetProperty(key) ==
    /\ ~crashed /\ pc[Caller] = "idle" /\ callsLeft > 0
    /\ callsLeft' = callsLeft - 1
    /\ res' = [res EXCEPT ![Caller] =
                  [op |-> "GetProperty", err |-> IF key \in DOMAIN Props THEN "nil" ELSE "unset"]]
    /\ UNCHANGED <<srvVars, osVars, fsVars, sigVars, thrVars, crashed>>
    /\ UNCHANGED <<clog, dcount, fetched, lastCmd, sigsLeft, extVars>>

\* The directory NewServer was given holds a server.properties that Load
\* reads as the mapping m.
ExistingProperties(m) ==
    /\ ~crashed /\ ~dirExists
    /\ dirExists' = TRUE
    /\ propsFile' = [exists |-> TRUE, map |-> m]
    /\ UNCHANGED <<srvVars, osVars, totalMB, eulaFile, jarFile, sigVars, thrVars, crashed>>
    /\ UNCHANGED <<obsVars, callsLeft, sigsLeft, extVars>>

\* The owning program calls SetDifficulty(v), lines 223-230.
SetDifficulty(v) ==
    /\ ~crashed /\ pc[Caller] = "idle" /\ callsLeft > 0
    /\ callsLeft' = callsLeft - 1
    /\ lastArg' = v
    /\ IF v \in Difficulties
       THEN /\ Props' = SetProperty("difficulty", <<v>>)
            /\ res' = [res EXCEPT ![Caller] = [op |-> "SetDifficulty", err |-> "nil"]]
       ELSE /\ Props' = Props
            /\ res' = [res EXCEPT ![Caller] = [op |-> "SetDifficulty", err |-> "ErrInvalid"]]
    /\ UNCHANGED <<running, pid, cmd, stdinPipe, Name, Port, MemoryMB, EULAAccepted>>
    /\ UNCHANGED <<osVars, fsVars, sigVars, thrVars, crashed>>
    /\ UNCHANGED <<clog, dcount, fetched, lastCmd, sigsLeft, logVars, bakVars>>

\* A SetWeather that sends the command without looking at the value.
SetCommandUnchecked(op, valid, prefix, v) ==
    /\ lastArg' = v
    /\ UNCHANGED <<logVars, bakVars>>
    /\ sendCommand(op, <<prefix, v>>)

\* SetWeather and SetTime, lines 233-248: the value is looked up in the
\* accepted set, then the command is handed to SendCommand.
SetCommand(op, valid, prefix, v) ==
    /\ lastArg' = v
    /\ UNCHANGED <<logVars, bakVars>>
    /\ IF v \in valid
       THEN sendCommand(op, <<prefix, v>>)
       ELSE /\ ~crashed /\ pc[Caller] = "idle" /\ callsLeft > 0
            /\ callsLeft' = callsLeft - 1
            /\ res' = [res EXCEPT ![Caller] = [op |-> op, err |-> "ErrInvalid"]]
            /\ UNCHANGED <<srvVars, osVars, fsVars, sigVars, thrVars, crashed>>
            /\ UNCHANGED <<clog, dcount, fetched, lastCmd, sigsLeft>>

SetWeather(v) == SetCommand("SetWeather", Weathers, "weather ", v)

SetTime(v) == SetCommand("SetTime", Times, "time set ", v)

\* ------------------------------------------------------------- AcceptEULA
AcceptEULA ==
    /\ ~crashed /\ pc[Caller] = "idle" /\ ~EULAAccepted
    /\ EULAAccepted' = TRUE
    /\ UNCHANGED <<running, pid, cmd, stdinPipe, Name, Port, MemoryMB, Props>>
    /\ UNCHANGED <<osVars, fsVars, sigVars, thrVars, crashed, obsVars, callsLeft, sigsLeft,
                 extVars>>

\* ------------------------------------------- the signal-dispatch goroutine
\* setupSignalHandlers, lines 287-292: a goroutine takes the next signal
\* from s.signals and calls Stop (for each of the three signals).
DispatchStop(d) ==
    /\ ~crashed /\ d \in Dispatchers /\ pc[d] = "recv" /\ signals # <<>>
    /\ signals' = Tail(signals)
    /\ dsig' = [dsig EXCEPT ![d] = Head(signals)]
    /\ dcount' = [dcount EXCEPT ![d] = [stops |-> 1, starts |-> 0, opts |-> "none"]]
    /\ StopEntry(d, Head(signals))
    /\ UNCHANGED callsLeft

\* The options the goroutine's Start is given: the closure's opts.
RestartOptions(d) == topts[d]

\* setupSignalHandlers, line 293: after Stop returned, SIGHUP calls Start.
DispatchStart(d, f) ==
    /\ ~crashed /\ d \in Dispatchers /\ pc[d] = "restart"
    /\ dcount' = [dcount EXCEPT ![d].starts = @ + 1, ![d].opts = RestartOptions(d)]
    /\ StartPrepare(d, RestartOptions(d), f)
    /\ UNCHANGED callsLeft

\* ------------------------------------------------------ the log extractor
\* Text is a sequence of pieces, each piece a string that is never split:
\* the log prefix, the delimiter "]: ", a player name, a blank, the two
\* phrases and the line end.
Delimiter == "]: "
Joined == "joined the game"
Left == "left the game"
Blank == " "
LogPrefix == "[INFO"
PlayerNames == {"A"}

\* strings.Contains(text, piece)
Contains(text, piece) == \E i \in 1..Len(text) : text[i] = piece

\* strings.SplitN(text, "]: ", 2)[1]: what follows the first delimiter
AfterDelimiter(text) ==
    LET i == CHOOSE j \in 1..Len(text) :
                 text[j] = Delimiter /\ \A h \in 1..(j - 1) : text[h] # Delimiter
    IN SubSeq(text, i + 1, Len(text))

\* the part of a piece before its first blank, and whether it has a blank
WordHead(piece) ==
    IF piece = Delimiter THEN "]:"
    ELSE IF piece = Joined THEN "joined"
    ELSE IF piece = Left THEN "left"
    ELSE IF piece = Blank THEN ""
    ELSE piece
HasBlank(piece) == piece \in {Delimiter, Joined, Left, Blank}

\* strings.Split(line, " ")[0]: the pieces up to the first blank
RECURSIVE FirstWord(_)
FirstWord(line) ==
    IF line = <<>> THEN <<>>
    ELSE IF HasBlank(Head(line))
        THEN (IF WordHead(Head(line)) = "" THEN <<>> ELSE <<WordHead(Head(line))>>)
    ELSE <<Head(line)>> \o FirstWord(Tail(line))

\* internalOnStdout, lines 453-461, 465 and 470: what one chunk is taken for.
Classify(msg) ==
    IF ~(Contains(msg, Joined) \/ Contains(msg, Left)) THEN [kind |-> "none", name |-> <<>>]
    ELSE IF ~Contains(msg, Delimiter) THEN [kind |-> "none", name |-> <<>>]
    ELSE LET line == AfterDelimiter(msg) IN
         IF Contains(line, Joined) THEN [kind |-> "playerJoin", name |-> FirstWord(line)]
         ELSE IF Contains(line, Left) THEN [kind |-> "playerLeave", name |-> FirstWord(line)]
         ELSE [kind |-> "none", name |-> <<>>]

\* the size of listenToStdout's buffer, in pieces at least one byte long
BufSize == 4096

\* exec.Cmd k's stdout can still be written to: this program holds the
\* write end until cmd.Start, the child until it exits.
StdoutOpen(k) ==
    \/ stdoutPipes[k].held
    \/ cmdProcess[k] # 0 /\ procState[cmdProcess[k]] = "alive"

\* listenToStdout, lines 427 and 432-434: the goroutine of exec.Cmd k has
\* left its loop, or will on its next Read without another step of anyone:
\* it is between chunks and the pipe is closed and empty.
ReaderExited(k) ==
    /\ readers[k].pc = "read"
    /\ stdoutPipes[k].buf = <<>>
    /\ ~StdoutOpen(k)

\* listenToStdout, line 428: the chunk is handled only if a stdout callback
\* is registered.
ReaderGate == "stdout" \in listeners

\* listenToStdout, lines 426-434: r.Read returns what the pipe holds, up to
\* the buffer's size; the chunk is classified (internalOnStdout up to the
\* first access to PlayerCount).  At the end of the stream the goroutine
\* leaves the loop without touching anything: see ReaderExited.
ReaderRead(k) ==
    LET pipe == stdoutPipes[k]
        n == IF Len(pipe.buf) < BufSize THEN Len(pipe.buf) ELSE BufSize
        msg == SubSeq(pipe.buf, 1, n)
        kind == Classify(msg).kind
    IN
    /\ ~crashed /\ k \in 1..Len(readers) /\ readers[k].pc = "read"
    /\ n > 0
    /\ stdoutPipes' = [stdoutPipes EXCEPT ![k].buf = SubSeq(pipe.buf, n + 1, Len(pipe.buf))]
    /\ readers' = IF ReaderGate
                  THEN [readers EXCEPT ![k].msg = msg,
                           ![k].pc = IF kind = "playerJoin" THEN "inc"
                                     ELSE IF kind = "playerLeave" THEN "dec"
                                     ELSE "forward"]
                  ELSE readers
    /\ UNCHANGED <<srvVars, osVars, fsVars, sigVars, thrVars, crashed, obsVars>>
    /\ UNCHANGED <<callsLeft, sigsLeft, lastArg, PlayerCount, listeners, events, writesLeft>>
    /\ UNCHANGED bakVars

\* what a reader step leaves alone
ReaderFrame ==
    /\ UNCHANGED <<srvVars, osVars, fsVars, sigVars, thrVars, crashed, obsVars>>
    /\ UNCHANGED <<callsLeft, sigsLeft, lastArg, listeners, stdoutPipes, writesLeft, bakVars>>

\* internalOnStdout, line 466, s.PlayerCount++: the load.
ReaderIncLoad(k) ==
    /\ ~crashed /\ k \in 1..Len(readers) /\ readers[k].pc = "inc"
    /\ readers' = [readers EXCEPT ![k].reg = PlayerCount, ![k].pc = "inc_store"]
    /\ UNCHANGED <<PlayerCount, events>>
    /\ ReaderFrame

\* internalOnStdout, line 466, s.PlayerCount++: the store.
ReaderIncStore(k) ==
    /\ ~crashed /\ k \in 1..Len(readers) /\ readers[k].pc = "inc_store"
    /\ PlayerCount' = readers[k].reg + 1
    /\ readers' = [readers EXCEPT ![k].reg = @ + 1, ![k].pc = "emit"]
    /\ UNCHANGED events
    /\ ReaderFrame

\* internalOnStdout, line 471: the test s.PlayerCount > 0.
ReaderDecTest(k) ==
    /\ ~crashed /\ k \in 1..Len(readers) /\ readers[k].pc = "dec"
    /\ readers' = [readers EXCEPT ![k].reg = PlayerCount,
                                  ![k].pc = IF PlayerCount > 0 THEN "dec_load" ELSE "emit"]
    /\ UNCHANGED <<PlayerCount, events>>
    /\ ReaderFrame

\* internalOnStdout, line 472, s.PlayerCount--: the load.
ReaderDecLoad(k) ==
    /\ ~crashed /\ k \in 1..Len(readers) /\ readers[k].pc = "dec_load"
    /\ readers' = [readers EXCEPT ![k].reg = PlayerCount, ![k].pc = "dec_store"]
    /\ UNCHANGED <<PlayerCount, events>>
    /\ ReaderFrame

\* internalOnStdout, line 472, s.PlayerCount--: the store.
ReaderDecStore(k) ==
    /\ ~crashed /\ k \in 1..Len(readers) /\ readers[k].pc = "dec_store"
    /\ PlayerCount' = readers[k].reg - 1
    /\ readers' = [readers EXCEPT ![k].reg = @ - 1, ![k].pc = "emit"]
    /\ UNCHANGED events
    /\ ReaderFrame

\* internalOnStdout, lines 467-469 and 474-476: the callback of the
\* event's kind, if registered, is called with the name and with
\* s.PlayerCount as it is now.  `applied` is the counter's value when this
\* goroutine had applied the event.
ReaderEmit(k) ==
    LET c == Classify(readers[k].msg) IN
    /\ ~crashed /\ k \in 1..Len(readers) /\ readers[k].pc = "emit"
    /\ events' = IF c.kind \in listeners
                 THEN Append(events, [kind |-> c.kind, name |-> c.name, count |-> PlayerCount,
                                      applied |-> readers[k].reg, reader |-> k])
                 ELSE events
    /\ readers' = [readers EXCEPT ![k].pc = "forward"]
    /\ UNCHANGED PlayerCount
    /\ ReaderFrame

\* listenToStdout, line 430: the chunk is handed to the stdout callback.
ReaderForward(k) ==
    /\ ~crashed /\ k \in 1..Len(readers) /\ readers[k].pc = "forward"
    /\ readers' = [readers EXCEPT ![k].fwd = Append(@, readers[k].msg), ![k].msg = <<>>,
                                  ![k].reg = 0, ![k].pc = "read"]
    /\ UNCHANGED <<PlayerCount, events>>
    /\ ReaderFrame

\* ---------------------------------------------------------------- backups
\* Server.Backup's store, and a directory of the owning program's choosing
\* inside the server directory.
BackupDirName == "backups"
StoreDirName == "store"
Stores == {BackupDirName, StoreDirName}

\* Seconds the clock may advance.
MaxTicks == 1

\* "backup-" + time.Now().Format("20060102-150405") + ".tar.zst", for the
\* seconds of the clock in their order.
ArchiveNames == <<"backup-20260101-000001.tar.zst", "backup-20260101-000002.tar.zst",
                  "backup-20260101-000003.tar.zst">>
ArchiveName(t) == ArchiveNames[t]

\* What a path holds: nothing, a directory, or a file with its bytes; an
\* archive file holds the records written to it.
NoEntry == [exists |-> FALSE, dir |-> FALSE, data |-> "", arch |-> <<>>]
DirEntry == [exists |-> TRUE, dir |-> TRUE, data |-> "", arch |-> <<>>]
FileEntry(d) == [exists |-> TRUE, dir |-> FALSE, data |-> d, arch |-> <<>>]

Put(t, p, e) == [q \in (DOMAIN t) \cup {p} |-> IF q = p THEN e ELSE t[q]]

\* The server directory at relative path p.
Entry(p) ==
    IF ~dirExists THEN NoEntry
    ELSE IF p = <<"eula.txt">> THEN IF eulaFile THEN FileEntry("eula=true\n") ELSE NoEntry
    ELSE IF p = <<"server.jar">> THEN IF jarFile THEN FileEntry("jar") ELSE NoEntry
    ELSE IF p = <<"server.properties">>
        THEN IF propsFile.exists THEN FileEntry("properties") ELSE NoEntry
    ELSE IF p \in DOMAIN tree THEN tree[p]
    ELSE NoEntry

\* Every path the server directory can hold, in the lexical order in which
\* filepath.Walk visits them.
ArchivesIn(d) == [t \in 1..Len(ArchiveNames) |-> <<d, ArchiveName(t)>>]
WalkOrder ==
    <<<<BackupDirName>>>> \o ArchivesIn(BackupDirName)
    \o << <<"eula.txt">>, <<"server.jar">>, <<"server.properties">>, <<StoreDirName>> >>
    \o ArchivesIn(StoreDirName)
    \o << <<"world">>, <<"world", "level.dat">> >>

\* createBackupTar's walk leaves out relPath "backups" and what is below it.
Skipped(store, p) == p[1] = BackupDirName

Min(S) == CHOOSE x \in S : \A y \in S : x <= y

\* The index in WalkOrder of the next path the walk of task t records, 0
\* at the end of the walk.
NextVisit(t) ==
    LET c == {j \in (t.pos + 1)..Len(WalkOrder) :
                 Entry(WalkOrder[j]).exists /\ ~Skipped(t.store, WalkOrder[j])}
    IN IF c = {} THEN 0 ELSE Min(c)

\* The records of the server directory outside the directory store.
Outside(store) ==
    {[name |-> WalkOrder[j], dir |-> Entry(WalkOrder[j]).dir, data |-> Entry(WalkOrder[j]).data] :
        j \in {i \in 1..Len(WalkOrder) : Entry(WalkOrder[i]).exists /\ WalkOrder[i][1] # store}}

\* An archive operation CreateBackup(s.Directory, s.Directory/store) about
\* to begin.
NewTask(store, owner) ==
    [pc |-> "create", store |-> store, dest |-> <<>>, pos |-> 0, err |-> "pending",
     owner |-> owner, snap |-> Outside(store)]

\* A Backup that hands every archive operation to a goroutine.
backupWaitsNever(nonBlocking) == FALSE

\* Backup, lines 533-546: the call runs the archive operation itself
\* unless nonBlocking.
backupWaits(nonBlocking) == ~nonBlocking

\* The owning program calls Backup(nonBlocking), lines 523-547; mkdirOK:
\* os.MkdirAll succeeds, as it does on a directory that exists.
Backup(nonBlocking, mkdirOK) ==
    LET waits == backupWaits(nonBlocking) IN
    /\ ~crashed /\ pc[Caller] = "idle" /\ callsLeft > 0
    /\ ~mkdirOK => ~Entry(<<BackupDirName>>).exists
    /\ callsLeft' = callsLeft - 1
    /\ lastArg' = IF nonBlocking THEN "nonBlocking" ELSE "blocking"
    /\ IF mkdirOK
       THEN /\ dirExists' = TRUE
            /\ tree' = Put(tree, <<BackupDirName>>, DirEntry)
            /\ tasks' = Append(tasks, NewTask(BackupDirName, IF waits THEN "caller" ELSE "detached"))
            /\ pc' = [pc EXCEPT ![Caller] = IF waits THEN "backup" ELSE "idle"]
            /\ res' = [res EXCEPT ![Caller] =
                          [op |-> "Backup", err |-> IF waits THEN "pending" ELSE "nil"]]
       ELSE /\ res' = [res EXCEPT ![Caller] = [op |-> "Backup", err |-> "ErrBackupDir"]]
            /\ UNCHANGED <<dirExists, tree, tasks, pc>>
    /\ UNCHANGED <<srvVars, osVars, totalMB, eulaFile, propsFile, jarFile, sigVars>>
    /\ UNCHANGED <<waited, dsig, topts, crashed, clog, dcount, fetched, lastCmd, sigsLeft>>
    /\ UNCHANGED <<logVars, tree2, now, lastRestore>>

\* The directory NewServer was given (line 66) is the one an earlier run of
\* the server left behind.
ExistingDirectory ==
    /\ ~crashed /\ ~dirExists
    /\ dirExists' = TRUE /\ eulaFile' = TRUE /\ jarFile' = TRUE
    /\ propsFile' = [exists |-> TRUE, map |-> EmptyProps]
    /\ tree' = Put(Put(tree, <<"world">>, DirEntry), <<"world", "level.dat">>, FileEntry("level"))
    /\ UNCHANGED <<srvVars, osVars, totalMB, sigVars, thrVars, crashed, obsVars>>
    /\ UNCHANGED <<callsLeft, sigsLeft, lastArg, logVars, tree2, now, tasks, lastRestore>>

\* The owning program makes the directory store inside the server directory.
MakeStore ==
    /\ ~crashed /\ ~Entry(<<StoreDirName>>).exists
    /\ dirExists' = TRUE
    /\ tree' = Put(tree, <<StoreDirName>>, DirEntry)
    /\ UNCHANGED <<srvVars, osVars, totalMB, eulaFile, propsFile, jarFile, sigVars, thrVars>>
    /\ UNCHANGED <<crashed, obsVars, callsLeft, sigsLeft, lastArg, logVars>>
    /\ UNCHANGED <<tree2, now, tasks, lastRestore>>

\* The owning program calls backup.CreateBackup(s.Directory, s.Directory/store).
CallCreateBackup(store) ==
    /\ ~crashed /\ pc[Caller] = "idle" /\ callsLeft > 0
    /\ callsLeft' = callsLeft - 1
    /\ lastArg' = store
    /\ tasks' = Append(tasks, NewTask(store, "caller"))
    /\ pc' = [pc EXCEPT ![Caller] = "backup"]
    /\ res' = [res EXCEPT ![Caller] = [op |-> "CreateBackup", err |-> "pending"]]
    /\ UNCHANGED <<srvVars, osVars, fsVars, sigVars, waited, dsig, topts, crashed>>
    /\ UNCHANGED <<clog, dcount, fetched, lastCmd, sigsLeft, logVars>>
    /\ UNCHANGED <<tree, tree2, now, lastRestore>>

\* Archive operation i ends with err: a goroutine prints it (line 536), a
\* call returns it (zip.go lines 16-20, lines 542-546).
TaskReturn(i, err) ==
    /\ tasks' = [tasks EXCEPT ![i].pc = "done", ![i].err = err]
    /\ IF tasks[i].owner = "caller"
       THEN /\ pc' = [pc EXCEPT ![Caller] = "idle"]
            /\ res' = [res EXCEPT ![Caller].err = err]
       ELSE UNCHANGED <<pc, res>>

TaskFrame ==
    /\ UNCHANGED <<srvVars, osVars, fsVars, sigVars, waited, dsig, topts, crashed>>
    /\ UNCHANGED <<clog, dcount, fetched, lastCmd, callsLeft, sigsLeft, lastArg, logVars>>
    /\ UNCHANGED <<tree2, now, lastRestore>>

\* zip.go lines 14 and 24: the archive's name from the clock, os.Create.
\* The file is made, or emptied if it exists; ok: the system lets it.
TaskCreate(i, ok) ==
    LET t == tasks[i]
        dest == <<t.store, ArchiveName(now)>>
    IN
    /\ ~crashed /\ t.pc = "create"
    /\ IF ok /\ Entry(<<t.store>>).exists
       THEN /\ tree' = Put(tree, dest, FileEntry("archive"))
            /\ tasks' = [tasks EXCEPT ![i].pc = "walk", ![i].dest = dest]
            /\ UNCHANGED <<pc, res>>
       ELSE TaskReturn(i, "ErrCreate") /\ UNCHANGED tree
    /\ TaskFrame

\* zip.go lines 43-91 for one path: the header and, for a file, its bytes
\* go into the archive; ok: the file system lets the walk read the path.
TaskVisit(i, ok) ==
    LET t == tasks[i]
        j == NextVisit(t)
        e == Entry(WalkOrder[j])
    IN
    /\ ~crashed /\ t.pc = "walk" /\ j # 0
    /\ IF ok
       THEN /\ tree' = [tree EXCEPT ![t.dest].arch =
                           Append(@, [name |-> WalkOrder[j], dir |-> e.dir, data |-> e.data])]
            /\ tasks' = [tasks EXCEPT ![i].pos = j]
            /\ UNCHANGED <<pc, res>>
       ELSE TaskReturn(i, "ErrWalk") /\ UNCHANGED tree
    /\ TaskFrame

\* The walk is over: the deferred Close calls, zip.go lines 28-41.
TaskFinish(i) ==
    /\ ~crashed /\ tasks[i].pc = "walk" /\ NextVisit(tasks[i]) = 0
    /\ TaskReturn(i, "nil")
    /\ UNCHANGED tree
    /\ TaskFrame

\* os.MkdirAll(p) in the tree t
RECURSIVE MkdirAll(_, _)
MkdirAll(t, p) ==
    IF p = <<>> THEN t
    ELSE Put(MkdirAll(t, SubSeq(p, 1, Len(p) - 1)), p, DirEntry)

\* RestoreBackup's loop, zip.go lines 109-146, over the records recs into
\* the tree t: the tree it leaves and the error it returns.
RECURSIVE Restore(_, _)
Restore(recs, t) ==
    IF recs = <<>> THEN [tree |-> t, err |-> "nil"]
    ELSE LET h == Head(recs)
             parent == SubSeq(h.name, 1, Len(h.name) - 1)
         IN IF h.name[1] = BackupDirName THEN Restore(Tail(recs), t)
            ELSE IF h.dir THEN Restore(Tail(recs), MkdirAll(t, h.name))
            ELSE IF parent = <<>> \/ (parent \in DOMAIN t /\ t[parent].dir)
                THEN Restore(Tail(recs), Put(t, h.name, FileEntry(h.data)))
            ELSE [tree |-> t, err |-> "ErrRestore"]

\* The owning program calls backup.RestoreBackup on the archive
\* s.Directory/store/<name of second k> with the directory tree2.  An
\* archive still being written ends before its end mark.
CallRestore(store, k) ==
    LET path == <<store, ArchiveName(k)>>
        e == Entry(path)
        r == Restore(e.arch, tree2)
        open == \E i \in 1..Len(tasks) : tasks[i].pc = "walk" /\ tasks[i].dest = path
    IN
    /\ ~crashed /\ pc[Caller] = "idle" /\ callsLeft > 0
    /\ callsLeft' = callsLeft - 1
    /\ lastRestore' = [store |-> store, path |-> path]
    /\ tree2' = IF e.exists THEN r.tree ELSE tree2
    /\ res' = [res EXCEPT ![Caller] =
                  [op |-> "RestoreBackup",
                   err |-> IF ~e.exists THEN "ErrOpen"
                           ELSE IF r.err # "nil" THEN r.err
                           ELSE IF open THEN "ErrTruncated" ELSE "nil"]]
    /\ UNCHANGED <<srvVars, osVars, fsVars, sigVars, thrVars, crashed>>
    /\ UNCHANGED <<clog, dcount, fetched, lastCmd, sigsLeft, lastArg, logVars>>
    /\ UNCHANGED <<tree, now, tasks>>

\* A second passes.
Tick ==
    /\ now <= MaxTicks
    /\ now' = now + 1
    /\ UNCHANGED <<srvVars, osVars, fsVars, sigVars, thrVars, crashed, obsVars>>
    /\ UNCHANGED <<callsLeft, sigsLeft, lastArg, logVars, tree, tree2, tasks, lastRestore>>

\* The server process, whose working directory is the server directory
\* (line 301), saves its world.
ProcSave(p) ==
    /\ ~crashed /\ p \in Alive /\ ~Entry(<<"world">>).exists
    /\ tree' = Put(Put(tree, <<"world">>, DirEntry), <<"world", "level.dat">>, FileEntry("level"))
    /\ UNCHANGED <<srvVars, osVars, fsVars, sigVars, thrVars, crashed, obsVars>>
    /\ UNCHANGED <<callsLeft, sigsLeft, lastArg, logVars, tree2, now, tasks, lastRestore>>

\* ------------------------------------------------------- operating system
\* What a process writes with one write: a log line
\* "[INFO]: <name> joined the game" or "[INFO]: <name> left the game", or
\* the line up to the name, or the rest of such a line.
LineHead(name) == <<LogPrefix, Delimiter, name>>
LineTail(phrase) == <<Blank, phrase, LineEnd>>
LineHeads == {LineHead(n) : n \in PlayerNames}
LineTails == {LineTail(ph) : ph \in {Joined, Left}}
LogLines == {h \o t : h \in LineHeads, t \in LineTails}

\* The process of exec.Cmd k writes to its stdout: the rest of the line
\* it has begun, or else a line or the beginning of one.
ProcWrite(k, text) ==
    LET w == stdoutPipes[k].written
        begun == w # <<>> /\ w[Len(w)] \in PlayerNames
    IN
    /\ ~crashed /\ k \in 1..Len(cmdProcess)
    /\ cmdProcess[k] # 0 /\ procState[cmdProcess[k]] = "alive"
    /\ IF begun
       THEN text \in LineTails /\ UNCHANGED writesLeft
       ELSE text \in LogLines \cup LineHeads /\ writesLeft > 0 /\ writesLeft' = writesLeft - 1
    /\ stdoutPipes' = [stdoutPipes EXCEPT ![k].buf = @ \o text, ![k].written = @ \o text]
    /\ UNCHANGED <<srvVars, osVars, fsVars, sigVars, thrVars, crashed, obsVars>>
    /\ UNCHANGED <<callsLeft, sigsLeft, lastArg, PlayerCount, listeners, readers, events>>
    /\ UNCHANGED bakVars

\* A process exits: by itself, or because it honours a SIGTERM it was sent.
ProcExit(p) ==
    /\ ~crashed /\ p \in Alive
    /\ procState' = [procState EXCEPT ![p] = "exited"]
    /\ UNCHANGED <<srvVars, cmdProcess, cmdStdin, procSig, fsVars, sigVars, thrVars, crashed>>
    /\ UNCHANGED <<obsVars, callsLeft, sigsLeft, extVars>>

\* A subscribed signal arrives.  signal.Notify does not block: the signal
\* is put into s.signals if the buffer has room and is discarded otherwise.
DeliverSignal(sig) ==
    /\ ~crashed /\ notified /\ sigsLeft > 0
    /\ sigsLeft' = sigsLeft - 1
    /\ signals' = IF Len(signals) < SignalBuffer THEN Append(signals, sig) ELSE signals
    /\ UNCHANGED <<srvVars, osVars, fsVars, notified, thrVars, crashed, obsVars, callsLeft,
                 extVars>>

\* ------------------------------------------------------ the specification
\* Interleavings of the owning program, the dispatch goroutines, the
\* processes and the signals; of the failures of the environment, the ones
\* a goroutine's restart can meet.
Next ==
    \/ \E o \in CallerOpts : CallStart(o, "none")
    \/ \E t \in Threads : LaunchCmd(t, "none")
    \/ \E t \in Threads, ok \in BOOLEAN : LaunchSpawn(t, ok)
    \/ \E t \in Threads : LaunchMark(t)
    \/ CallStop
    \/ \E t \in Threads : StopPoll(t)
    \/ \E t \in Threads : StopKill(t)
    \/ AcceptEULA
    \/ \E d \in Dispatchers : DispatchStop(d)
    \/ \E d \in Dispatchers, f \in {"none", "download"} : DispatchStart(d, f)
    \/ \E p \in Alive : ProcExit(p)
    \/ \E sig \in Sigs : DeliverSignal(sig)

Spec == Init /\ [][Next]_vars

\* The owning program alone, with every configuration and every failure of
\* the environment.
NextSeq ==
    \/ \E o \in CallerOpts, f \in PrepFailures : CallStart(o, f)
    \/ \E f \in PipeFailures : LaunchCmd(Caller, f)
    \/ \E ok \in BOOLEAN : LaunchSpawn(Caller, ok)
    \/ LaunchMark(Caller)
    \/ CallStop
    \/ StopPoll(Caller)
    \/ StopKill(Caller)
    \/ \E text \in Texts : SendCommand(text)
    \/ AcceptEULA
    \/ \E p \in Alive : ProcExit(p)

SpecSeq == InitSeq /\ [][NextSeq]_vars

\* The owning program alone, on a server with NewServer's configuration and
\* the EULA accepted, using the game-setting operations.
InitCtl == NewServer(DefaultPort, DefaultMemoryMB, TRUE, TotalMemoryMB, MaxSeqCalls, 0, 0, {})

NextCtl ==
    \/ CallStart(NilOpts, "none")
    \/ LaunchCmd(Caller, "none")
    \/ LaunchSpawn(Caller, TRUE)
    \/ LaunchMark(Caller)
    \/ CallStop
    \/ StopPoll(Caller)
    \/ StopKill(Caller)
    \/ \E v \in Values : SetDifficulty(v)
    \/ \E v \in Values : SetWeather(v)
    \/ \E v \in Values : SetTime(v)
    \/ \E p \in Alive : ProcExit(p)

SpecCtl == InitCtl /\ [][NextCtl]_vars

\* The owning program, having accepted the EULA and registered callbacks
\* with SetEventListener (lines 100-121; a registered callback is never
\* removed), starts, stops and restarts the server; the processes write
\* log lines and the readers handle them.
MaxLines == 3
InitLog ==
    \E ls \in SUBSET {"stdout", "playerJoin", "playerLeave"} :
        NewServer(DefaultPort, DefaultMemoryMB, TRUE, TotalMemoryMB, MaxSeqCalls, 0, MaxLines, ls)

NextLog ==
    \/ CallStart(NilOpts, "none")
    \/ LaunchCmd(Caller, "none")
    \/ LaunchSpawn(Caller, TRUE)
    \/ LaunchMark(Caller)
    \/ CallStop
    \/ StopPoll(Caller)
    \/ StopKill(Caller)
    \/ \E p \in Alive : ProcExit(p)
    \/ \E k \in 1..Len(cmdProcess), text \in LogLines \cup LineHeads \cup LineTails :
          ProcWrite(k, text)
    \/ \E k \in 1..Len(readers) : ReaderRead(k)
    \/ \E k \in 1..Len(readers) : ReaderIncLoad(k)
    \/ \E k \in 1..Len(readers) : ReaderIncStore(k)
    \/ \E k \in 1..Len(readers) : ReaderDecTest(k)
    \/ \E k \in 1..Len(readers) : ReaderDecLoad(k)
    \/ \E k \in 1..Len(readers) : ReaderDecStore(k)
    \/ \E k \in 1..Len(readers) : ReaderEmit(k)
    \/ \E k \in 1..Len(readers) : ReaderForward(k)

SpecLog == InitLog /\ [][NextLog]_vars

\* The owning program, having accepted the EULA, may find an earlier run's
\* directory and may make a store directory of its own; it then starts the
\* server or not, takes backups of the server directory and, once they are
\* over, restores one into another directory, while the clock advances and
\* the server process saves its world.
MaxBakCalls == 2
InitBak == NewServer(DefaultPort, DefaultMemoryMB, TRUE, TotalMemoryMB, MaxBakCalls, 0, 0, {})

NextBak ==
    \/ callsLeft = MaxBakCalls /\ ExistingDirectory
    \/ callsLeft = MaxBakCalls /\ MakeStore
    \/ callsLeft = MaxBakCalls /\ CallStart(NilOpts, "none")
    \/ LaunchCmd(Caller, "none")
    \/ LaunchSpawn(Caller, TRUE)
    \/ LaunchMark(Caller)
    \/ \E nb \in BOOLEAN, ok \in BOOLEAN : Backup(nb, ok)
    \/ \E store \in Stores : CallCreateBackup(store)
    \/ \E i \in 1..Len(tasks), ok \in BOOLEAN : TaskCreate(i, ok)
    \/ \E i \in 1..Len(tasks), ok \in BOOLEAN : TaskVisit(i, ok)
    \/ \E i \in 1..Len(tasks) : TaskFinish(i)
    \/ /\ \A i \in 1..Len(tasks) : tasks[i].pc = "done"
       /\ \E store \in Stores, k \in 1..now : CallRestore(store, k)
    \/ Tick
    \/ \E p \in Alive : ProcSave(p)

SpecBak == InitBak /\ [][NextBak]_vars

\* The owning program starts the server or not and calls Backup, while the
\* clock advances and the archive operations run.
NextBackup ==
    \/ callsLeft = MaxBakCalls /\ CallStart(NilOpts, "none")
    \/ LaunchCmd(Caller, "none")
    \/ LaunchSpawn(Caller, TRUE)
    \/ LaunchMark(Caller)
    \/ \E nb \in BOOLEAN, ok \in BOOLEAN : Backup(nb, ok)
    \/ \E i \in 1..Len(tasks), ok \in BOOLEAN : TaskCreate(i, ok)
    \/ \E i \in 1..Len(tasks), ok \in BOOLEAN : TaskVisit(i, ok)
    \/ \E i \in 1..Len(tasks) : TaskFinish(i)
    \/ Tick

SpecBackup == InitBak /\ [][NextBackup]_vars

\* The owning program, having accepted the EULA, starts and stops the
\* server while signals arrive.  The Go scheduler runs every goroutine that
\* can take a step: the call in progress, the dispatch goroutines.
MaxLifeCalls == 2
InitLife ==
    NewServer(DefaultPort, DefaultMemoryMB, TRUE, TotalMemoryMB, MaxLifeCalls, MaxSignals, 0, {})

CallSteps(t) ==
    \/ LaunchCmd(t, "none")
    \/ LaunchSpawn(t, TRUE)
    \/ LaunchMark(t)
    \/ StopPoll(t)
    \/ StopKill(t)

DispatchSteps(d) == DispatchStop(d) \/ DispatchStart(d, "none")

NextLife ==
    \/ CallStart(NilOpts, "none")
    \/ CallStop
    \/ \E t \in Threads : CallSteps(t)
    \/ \E d \in Dispatchers : DispatchSteps(d)
    \/ \E p \in Alive : ProcExit(p)
    \/ \E sig \in Sigs : DeliverSignal(sig)

SpecLife ==
    /\ InitLife /\ [][NextLife]_vars
    /\ \A t \in Threads : WF_vars(CallSteps(t))
    /\ \A d \in Dispatchers : WF_vars(DispatchSteps(d))

\* The owning program, having accepted the EULA, sets and reads properties
\* and starts the server, with the artifact fetch failing or not, in a
\* directory that may hold a server.properties already.
MaxPropCalls == 3
PropKeys == {"gamemode", "motd"}
PropValues == {<<"creative">>, <<"a", Backslash, "b">>, <<"a", LineEnd, "b">>}
DiskMaps == {[k \in {"motd"} |-> <<"a", LineEnd, "b">>],
             [k \in {"gamemode", "motd"} |-> IF k = "motd" THEN <<"a">> ELSE <<"survival">>]}
InitProps ==
    NewServer(DefaultPort, DefaultMemoryMB, TRUE, TotalMemoryMB, MaxPropCalls, 0, 0, {})

NextProps ==
    \/ callsLeft = MaxPropCalls /\ \E m \in DiskMaps : ExistingProperties(m)
    \/ \E k \in PropKeys, v \in PropValues : CallSetProperty(k, v)
    \/ \E k \in PropKeys : CallGetProperty(k)
    \/ \E f \in {"none", "download"} : CallStart(NilOpts, f)
    \/ LaunchCmd(Caller, "none")
    \/ LaunchSpawn(Caller, TRUE)
    \/ LaunchMark(Caller)

SpecProps == InitProps /\ [][NextProps]_vars

\* ================================================================= claims
\* The owning program's call of op begins with this step.
CallerCalls(op) == callsLeft' = callsLeft - 1 /\ res'[Caller].op = op

\* The owning program's call of op has returned and nothing was called since.
CallerReturned(op) == pc[Caller] = "idle" /\ res[Caller].op = op /\ res[Caller].err # "pending"

PortInvalid == Port < 1 \/ Port > 65535
MemoryInvalid == MemoryMB < 512 \/ MemoryMB > totalMB - 512 \/ MemoryMB % 512 # 0

\* C1: after Start succeeded and a following Stop returned without error,
\* IsRunning() is false and GetPID() is negative.
C1_StoppedHasNoPid ==
    (CallerReturned("Stop") /\ res[Caller].err = "nil") => (~IsRunning /\ GetPID < 0)

\* C2: in every reachable state, running implies that pid is positive and
\* that cmd and cmd.Process are non-nil.
C2_RunningHasProcess ==
    (running /\ ~crashed) => (pid > 0 /\ cmd # 0 /\ cmdProcess[cmd] # 0)

\* C3: with a memory value below 512, above total-512 or not a multiple of
\* 512, with a port outside 1..65535, or without the EULA accepted, Start
\* returns an error of the configuration check (or, the directory being
\* made first, the error of making it) and no process is ever spawned; a
\* memory error is reported only for such a memory value.
C3_InvalidConfigRejected ==
    LET r == res[Caller] IN
    /\ (PortInvalid \/ MemoryInvalid \/ ~EULAAccepted) =>
          /\ procState = <<>> /\ cmdProcess = <<>> /\ ~running
          /\ r.op = "Start" => r.err \in ConfigErrors \cup {"ErrMkdir"}
    /\ (r.op = "Start" /\ PortInvalid) => r.err \in {"ErrPort", "ErrMkdir"}
    /\ (r.op = "Start" /\ r.err \in {"ErrMemoryRange", "ErrMemoryMultiple"}) => MemoryInvalid
    /\ (r.op = "Start" /\ r.err = "ErrPort") => PortInvalid

C3_Witness ==
    /\ CallerReturned("Start") /\ res[Caller].err = "ErrMemoryMultiple"
    /\ MemoryMB = 768 /\ totalMB = 8192 /\ procState = <<>>

\* C4: a Start that fails a precondition check (port, memory, EULA, already
\* running) has created no directory, written no file, fetched nothing,
\* installed no handler, changed no field and spawned nothing.
PreconditionErrors ==
    {"ErrPort", "ErrMemoryRange", "ErrMemoryMultiple", "ErrEULA", "ErrAlreadyRunning"}

C4_FailedPreconditionNoEffect ==
    [][(CallerCalls("Start") /\ res'[Caller].err \in PreconditionErrors) =>
          /\ UNCHANGED <<dirExists, eulaFile, propsFile, jarFile, notified>>
          /\ UNCHANGED <<srvVars, osVars>>
          /\ \A d \in Dispatchers : pc'[d] = pc[d]]_vars

\* C5: a Start called on a server that is not running and failing at any
\* step up to the spawn returns that step's error, leaves running false and
\* leaves no process of its own alive.
StartErrors ==
    {"ErrMkdir", "ErrPort", "ErrTotalMemory", "ErrMemoryRange", "ErrMemoryMultiple", "ErrEULA",
     "ErrWriteEULA", "ErrWriteProperties", "ErrDownload", "ErrPipe", "ErrSpawn"}

C5_FailedStartLeavesStopped ==
    LET r == res[Caller]
        l == clog[Caller]
    IN
    (r.op = "Start" /\ r.err \notin {"nil", "pending"} /\ ~l.wasRunning) =>
        /\ ~running
        /\ r.err \in StartErrors
        /\ l.spawned = 0
        /\ Alive = {}
        /\ r.err = "ErrMkdir" => ~dirExists
        /\ r.err \in {"ErrWriteEULA", "ErrWriteProperties", "ErrDownload", "ErrPipe", "ErrSpawn"} =>
              (dirExists /\ ~PortInvalid /\ ~MemoryInvalid /\ EULAAccepted)
        /\ r.err \in {"ErrWriteProperties", "ErrDownload", "ErrPipe", "ErrSpawn"} => eulaFile
        /\ r.err \in {"ErrDownload", "ErrPipe", "ErrSpawn"} => propsFile.exists
        /\ r.err \in {"ErrPipe", "ErrSpawn"} => (jarFile /\ notified /\ cmd # 0 /\ cmdProcess[cmd] = 0)

C5_Witness ==
    /\ CallerReturned("Start") /\ res[Caller].err = "ErrSpawn" /\ ~clog[Caller].wasRunning
    /\ ~running /\ Len(procState) = 1 /\ Len(cmdProcess) = 2

\* C6: Stop on a server that is not running returns the not-running error,
\* sends no signal and leaves running, pid and the process handle alone.
C6_StopWhenNotRunning ==
    [][(CallerCalls("Stop") /\ ~running) =>
          /\ res'[Caller].err = "ErrNotRunning"
          /\ pc'[Caller] = "idle"
          /\ UNCHANGED <<running, pid, cmd, cmdProcess, procSig, procState>>]_vars

C6_Witness ==
    /\ CallerReturned("Stop") /\ res[Caller].err = "ErrNotRunning"
    /\ cmd # 0 /\ cmdProcess[cmd] # 0 /\ pid = NoPid /\ procSig[cmdProcess[cmd]] = {"SIGTERM"}

\* C7: Stop sends SIGTERM first; it sends the kill exactly when 30 probes,
\* one per second, all found the process alive; a probe that finds it gone
\* clears running and pid and returns success without a kill; after 30
\* live probes the kill is sent and, the process being alive, running is
\* cleared and Stop succeeds.  Stop makes at most 30 probes.
C7_StopState ==
    LET l == clog[Caller] IN
    /\ waited[Caller] <= 30
    /\ pc[Caller] = "poll" =>
          (l.term /\ "SIGTERM" \in procSig[l.target] /\ l.kill = "none" /\ ~l.dead)
    /\ l.kill # "none" => (l.term /\ ~l.dead)
    /\ (res[Caller].op = "Stop" /\ res[Caller].err = "nil") =>
          (l.term /\ (l.dead <=> l.kill = "none") /\ l.kill \in {"none", "sent"})
    /\ (l.target # 0) => (l.kill = "sent" <=> "SIGKILL" \in procSig[l.target])

C7_StopStep ==
    LET l == clog[Caller]
        p == l.target
    IN
    (pc[Caller] = "poll" /\ (pc'[Caller] # "poll" \/ waited'[Caller] # waited[Caller])) =>
        IF waited[Caller] < 30
        THEN IF procState[p] = "alive"
             THEN /\ waited'[Caller] = waited[Caller] + 1
                  /\ pc'[Caller] = "poll"
                  /\ UNCHANGED <<running, pid, procSig, procState>>
             ELSE /\ clog'[Caller].dead
                  /\ ~running' /\ pid' = NoPid
                  /\ res'[Caller] = [op |-> "Stop", err |-> "nil"]
                  /\ pc'[Caller] = "idle"
                  /\ UNCHANGED <<procSig, procState>>
        ELSE /\ clog'[Caller].kill # "none"
             /\ pc'[Caller] = "idle"
             /\ procState[p] = "alive" =>
                   /\ ~running' /\ pid' = NoPid
                   /\ res'[Caller] = [op |-> "Stop", err |-> "nil"]
                   /\ procState'[p] = "exited"
                   /\ procSig'[p] = procSig[p] \cup {"SIGKILL"}

C7_StopProtocol == []C7_StopState /\ [][C7_StopStep]_vars

C7_Witness ==
    /\ CallerReturned("Stop") /\ res[Caller].err = "nil"
    /\ clog[Caller].kill = "sent" /\ ~running

\* C8: when the kill at the end of the timeout fails, Stop returns the
\* shutdown error and running and pid are what they were when Stop was
\* called: the server still counts as running.
C8_FailedKillKeepsRunning ==
    (res[Caller].op = "Stop" /\ res[Caller].err = "ErrKill") =>
        /\ clog[Caller].wasRunning /\ running
        /\ pid = clog[Caller].target /\ pid > 0
        /\ clog[Caller].kill = "failed"

C8_Witness == CallerReturned("Stop") /\ res[Caller].err = "ErrKill" /\ IsRunning

C10_SendCommand ==
    [][CallerCalls("SendCommand") =>
          /\ running' = running /\ pid' = pid /\ pc'[Caller] = "idle"
          /\ IF ~running \/ stdinPipe = 0
             THEN res'[Caller].err \in {"ErrNotRunning", "ErrNoStdin"} /\ cmdStdin' = cmdStdin
             ELSE \/ /\ res'[Caller].err = "nil"
                     /\ cmdStdin' = [cmdStdin EXCEPT ![stdinPipe] = @ \o lastCmd' \o <<"\n">>]
                  \/ /\ res'[Caller].err = "ErrWrite"
                     /\ procState[cmdProcess[stdinPipe]] = "exited"
                     /\ cmdStdin' = cmdStdin]_vars

C10_Witness ==
    /\ CallerReturned("SendCommand") /\ res[Caller].err = "nil"
    /\ lastCmd = <<"s">> /\ running /\ cmdStdin[stdinPipe] = <<"s", "\n">>

\* C11: SetDifficulty, SetWeather and SetTime given a value outside their
\* accepted set return the validation error, set no property and write no
\* command; given an accepted value, SetDifficulty sets the property
\* "difficulty" to it and writes nothing, and SetWeather and SetTime send
\* the one command "weather <value>" or "time set <value>" through
\* SendCommand, which reports the not-running error on a stopped server.
C11_SetterStep(op, valid, prefix) ==
    CallerCalls(op) =>
        /\ pc'[Caller] = "idle" /\ running' = running /\ pid' = pid
        /\ IF lastArg' \notin valid
           THEN /\ res'[Caller].err = "ErrInvalid"
                /\ Props' = Props /\ cmdStdin' = cmdStdin
           ELSE IF op = "SetDifficulty"
           THEN /\ res'[Caller].err = "nil"
                /\ "difficulty" \in DOMAIN Props' /\ Props'["difficulty"] = <<lastArg'>>
                /\ \A k \in DOMAIN Props : k # "difficulty" => Props'[k] = Props[k]
                /\ cmdStdin' = cmdStdin
           ELSE /\ Props' = Props
                /\ IF ~running
                   THEN res'[Caller].err = "ErrNotRunning" /\ cmdStdin' = cmdStdin
                   ELSE \/ /\ res'[Caller].err = "nil"
                           /\ cmdStdin' = [cmdStdin EXCEPT
                                  ![stdinPipe] = @ \o <<prefix, lastArg', "\n">>]
                        \/ /\ res'[Caller].err \in {"ErrNoStdin", "ErrWrite"}
                           /\ cmdStdin' = cmdStdin

\* C11, for the three operations with the accepted sets the claim lists.
C11_Setters ==
    [][/\ C11_SetterStep("SetDifficulty", {"peaceful", "easy", "normal", "hard"}, "")
       /\ C11_SetterStep("SetWeather", {"clear", "rain", "thunder"}, "weather ")
       /\ C11_SetterStep("SetTime", {"day", "night", "noon", "midnight"}, "time set ")]_vars

C11_Witness ==
    /\ CallerReturned("SetTime") /\ res[Caller].err = "nil" /\ lastArg = "noon"
    /\ running /\ cmdStdin[stdinPipe] = <<"time set ", "noon", "\n">>
    /\ "difficulty" \in DOMAIN Props /\ Props["difficulty"] = <<"hard">>

\* C12: whatever the readers do, also across restarts, PlayerCount is never
\* negative, a leave met at counter 0 leaves it at 0, and every playerJoin/
\* playerLeave callback is given the value the counter had right after its
\* event was applied.
C12_PlayerCounter ==
    /\ PlayerCount >= 0
    /\ \A i \in 1..Len(events) : events[i].count = events[i].applied /\ events[i].count >= 0
    /\ \A k \in 1..Len(readers) :
          (readers[k].pc = "emit" /\ Classify(readers[k].msg).kind = "playerLeave") =>
              readers[k].reg >= 0

\* the reader of exec.Cmd k takes chunk msg from its pipe in this step
ChunkTaken(k, msg) ==
    /\ k \in 1..Len(stdoutPipes) /\ msg # <<>>
    /\ Len(stdoutPipes'[k].buf) + Len(msg) = Len(stdoutPipes[k].buf)
    /\ msg = SubSeq(stdoutPipes[k].buf, 1, Len(msg))

\* C13: every stdout chunk holding the delimiter and "joined the game"
\* (resp. "left the game") is handled as a join (resp. leave): the counter
\* is incremented (resp. decremented, not below zero) and the callback, if
\* registered, gets the first word after the delimiter and the new count,
\* whether or not a stdout callback is registered.
C13_ChunkClassified ==
    [][\A k \in 1..Len(readers) :
          LET msg == SubSeq(stdoutPipes[k].buf, 1,
                            Len(stdoutPipes[k].buf) - Len(stdoutPipes'[k].buf))
          IN
          /\ (ChunkTaken(k, msg) /\ Contains(msg, "]: ") /\ Contains(msg, "joined the game")) =>
                (readers'[k].pc = "inc" /\ readers'[k].msg = msg)
          /\ (ChunkTaken(k, msg) /\ Contains(msg, "]: ") /\ Contains(msg, "left the game")
                 /\ ~Contains(msg, "joined the game")) =>
                (readers'[k].pc = "dec" /\ readers'[k].msg = msg)
          /\ (readers[k].pc = "inc_store" /\ readers'[k].pc = "emit") =>
                PlayerCount' = PlayerCount + 1
          /\ (readers[k].pc = "emit" /\ readers'[k].pc = "forward"
                 /\ Classify(readers[k].msg).kind \in listeners) =>
                /\ Len(events') = Len(events) + 1
                /\ events'[Len(events')].name = FirstWord(AfterDelimiter(readers[k].msg))
                /\ events'[Len(events')].count = PlayerCount]_vars

\* the events the complete lines of a stream stand for, in order
RECURSIVE LineEvents(_)
LineEvents(w) ==
    IF Len(w) < 6 THEN <<>>
    ELSE <<[kind |-> IF w[5] = "joined the game" THEN "playerJoin" ELSE "playerLeave",
            name |-> <<w[3]>>]>> \o LineEvents(SubSeq(w, 7, Len(w)))

\* the counter after a sequence of events, from c
RECURSIVE CountAfter(_, _)
CountAfter(c, es) ==
    IF es = <<>> THEN c
    ELSE CountAfter(IF Head(es).kind = "playerJoin" THEN c + 1
                    ELSE IF c > 0 THEN c - 1 ELSE 0, Tail(es))

\* C14: with all callbacks registered and one process, once the reader has
\* handled everything written, the events it produced and the counter are
\* those of the complete lines of the stream, however the stream was cut
\* into chunks.
C14_ChunkingIrrelevant ==
    (/\ listeners = {"stdout", "playerJoin", "playerLeave"}
     /\ Len(readers) = 1 /\ readers[1].pc = "read" /\ stdoutPipes[1].buf = <<>>) =>
        LET es == LineEvents(stdoutPipes[1].written) IN
        /\ Len(events) = Len(es)
        /\ \A i \in 1..Len(es) : events[i].kind = es[i].kind /\ events[i].name = es[i].name
        /\ PlayerCount = CountAfter(0, es)

\* The records of archive operation i's archive file.
ArchiveOf(i) == Entry(tasks[i].dest).arch

\* C15: the archive CreateBackup(sourceDir, destinationDir) writes, with
\* destinationDir inside sourceDir under whatever name, has no record of
\* destinationDir or of anything below it.
C15_StoreLeftOut ==
    \A i \in 1..Len(tasks) :
        tasks[i].dest # <<>> =>
            \A k \in 1..Len(ArchiveOf(i)) : ArchiveOf(i)[k].name[1] # tasks[i].store

\* The records of the directory RestoreBackup wrote into.
Restored == {[name |-> p, dir |-> tree2[p].dir, data |-> tree2[p].data] : p \in DOMAIN tree2}

\* Archive operation i alone wrote the archive the last RestoreBackup
\* read, it ended without error, and the server directory outside its
\* store is as it was when the operation began.
RoundTripOf(i) ==
    /\ CallerReturned("RestoreBackup") /\ res[Caller].err = "nil"
    /\ tasks[i].dest = lastRestore.path /\ tasks[i].pc = "done" /\ tasks[i].err = "nil"
    /\ \A j \in 1..Len(tasks) : j # i => tasks[j].dest # tasks[i].dest
    /\ tasks[i].snap = Outside(tasks[i].store)

\* C16: RestoreBackup of the archive CreateBackup(dir, store) wrote, into
\* an empty directory, recreates every file and directory of dir outside
\* store with its path and bytes, and creates nothing of store's subtree.
C16_RoundTrip ==
    \A i \in 1..Len(tasks) : RoundTripOf(i) => Restored = Outside(tasks[i].store)

\* C17: any two backup operations of the server write distinct archive
\* files: none creates, truncates or writes the file another one is
\* writing or has produced.
C17_DistinctArchives ==
    \A i, j \in 1..Len(tasks) :
        (i # j /\ tasks[i].dest # <<>> /\ tasks[j].dest # <<>>) => tasks[i].dest # tasks[j].dest

\* The archive operation begun last.
LastTask == tasks[Len(tasks)]

\* The step with which the owning program's Backup call begins: it returns
\* nil at once with the archive operation not yet begun (nonBlocking), or
\* waits for the operation it has begun; it fails only if the store
\* directory is neither there nor creatable.
C18_BackupCall ==
    CallerCalls("Backup") =>
        /\ running' = running /\ pid' = pid
        /\ Entry(<<BackupDirName>>).exists => Entry(<<BackupDirName>>)'.exists
        /\ IF Entry(<<BackupDirName>>)'.exists
           THEN /\ Len(tasks') = Len(tasks) + 1 /\ LastTask'.pc = "create"
                /\ LastTask'.store = BackupDirName
                /\ IF lastArg' = "nonBlocking"
                   THEN pc'[Caller] = "idle" /\ res'[Caller].err = "nil"
                   ELSE pc'[Caller] = "backup" /\ res'[Caller].err = "pending"
           ELSE pc'[Caller] = "idle" /\ res'[Caller].err = "ErrBackupDir" /\ tasks' = tasks

\* A step of an archive operation: a waiting Backup returns exactly when
\* its operation ends, with that operation's error; a returned Backup's
\* result stays as it is.
C18_BackupTask ==
    tasks' # tasks /\ ~CallerCalls("Backup") =>
        /\ running' = running /\ pid' = pid
        /\ IF pc[Caller] = "backup"
           THEN IF LastTask'.pc = "done"
                THEN pc'[Caller] = "idle" /\ res'[Caller] = [op |-> "Backup", err |-> LastTask'.err]
                ELSE pc'[Caller] = "backup" /\ res' = res
           ELSE pc' = pc /\ res' = res

\* C18: Backup(true) returns nil whenever the store directory exists or
\* could be created, without waiting for the archive operation and
\* whatever becomes of it; Backup(false) returns the archive operation's
\* error, and only once the operation has ended; running and pid stay as
\* they are.
C18_Backup ==
    /\ [][C18_BackupCall /\ C18_BackupTask]_vars
    /\ [](CallerReturned("Backup") =>
            IF lastArg = "nonBlocking" THEN res[Caller].err \in {"nil", "ErrBackupDir"}
            ELSE res[Caller].err = "ErrBackupDir"
                 \/ (LastTask.pc = "done" /\ LastTask.err = res[Caller].err))

\* the server runs, Backup(true) has returned nil, and its archive
\* operation has failed since
C18_Witness ==
    /\ running /\ pid # 0 /\ CallerReturned("Backup") /\ lastArg = "nonBlocking"
    /\ res[Caller].err = "nil"
    /\ LastTask.pc = "done" /\ LastTask.err = "ErrWalk" /\ LastTask.owner = "detached"

\* The goroutines the server has started and that have not ended, the
\* detached archive operations apart: the readers of the processes'
\* output and the signal-dispatch goroutines.
ReadersAlive == {k \in 1..Len(readers) : readers[k].pc # "none" /\ ~ReaderExited(k)}
DispatchersAlive == {d \in Dispatchers : pc[d] # "none"}

\* C19: once Stop, called by the owning program, has returned without
\* error, eventually every reader goroutine has ended and no
\* signal-dispatch goroutine is left to react to a later signal.
C19_StopReleasesTasks ==
    (CallerReturned("Stop") /\ res[Caller].err = "nil")
        ~> (ReadersAlive = {} /\ DispatchersAlive = {})

\* C20: Start writes the EULA marker and the properties file only after
\* the artifact fetch has succeeded: a Start that fails in the fetch
\* leaves both files as they were.
C20_FetchBeforeFiles ==
    [][(CallerCalls("Start") /\ res'[Caller].err = "ErrDownload")
          => (eulaFile' = eulaFile /\ propsFile' = propsFile)]_vars

\* This step is a Start of the owning program that got as far as
\* writeProperties and wrote the file.
Persists == CallerCalls("Start") /\ res'[Caller].err \in {"pending", "ErrDownload"}

\* C21: the persist step of Start leaves a properties file that maps every
\* key of the in-memory mapping to its in-memory value and every other key
\* of the file to the value it had; persisting the same mapping again
\* leaves the file as it is; SetProperty and GetProperty do not touch the
\* file.
C21_PropertiesMerge ==
    [][/\ Persists =>
            /\ propsFile'.exists
            /\ \A k \in DOMAIN Props :
                   k \in DOMAIN propsFile'.map /\ propsFile'.map[k] = Props[k]
            /\ \A k \in (DOMAIN propsFile.map) \ (DOMAIN Props) :
                   k \in DOMAIN propsFile'.map /\ propsFile'.map[k] = propsFile.map[k]
            /\ writeProperties(propsFile', Props) = propsFile'
       /\ (CallerCalls("SetProperty") \/ CallerCalls("GetProperty")) => propsFile' = propsFile]_vars

\* C22: whatever Starts were called, launches that failed included, at most
\* one signal-dispatch goroutine exists, and a goroutine answers the signal
\* it took with one Stop and at most one Start.
C22_OneDispatcher ==
    /\ Cardinality(DispatchersAlive) <= 1
    /\ \A d \in Dispatchers : dcount[d].stops <= 1 /\ dcount[d].starts <= 1

\* Thread t enters Start with this step: the owning program's call, or a
\* dispatch goroutine's restart.
EntersStart(t) ==
    IF t = Caller THEN CallerCalls("Start") ELSE pc[t] = "restart" /\ pc'[t] # "restart"

\* C23: in every interleaving of the owning program's Start with the Stop
\* and Start of the dispatch goroutines, at most one process the server
\* spawned is alive, and a Start entered while the server is running
\* returns the already-running error, spawns nothing and leaves the
\* process handle as it is.
C23_OneProcess ==
    /\ [](Cardinality(Alive) <= 1)
    /\ [][\A t \in Threads :
             (EntersStart(t) /\ running) =>
                 /\ res'[t] = [op |-> "Start", err |-> "ErrAlreadyRunning"]
                 /\ cmd' = cmd /\ cmdProcess' = cmdProcess /\ procState' = procState]_vars

\* Thread t, inside Stop, probes or kills with this step.
StopActs(t) == pc[t] = "poll" /\ (pc'[t] # "poll" \/ waited'[t] # waited[t])

\* C24: every probe and the kill of a Stop go to the process that was the
\* server's process when that Stop was entered, so a Stop still polling
\* when a restart replaces the process neither kills the new process nor
\* marks it as not running.
C24_StopKeepsItsTarget ==
    [][\A t \in Threads : StopActs(t) => cmdProcess[cmd] = clog[t].target]_vars

\* The owning program has called Start and nothing else, and no signal
\* has reached the program.
LeftAlone ==
    sigsLeft = MaxSignals /\ callsLeft = MaxLifeCalls - 1 /\ res[Caller].op = "Start"

\* C25: when the server's process has exited by itself, with no Stop and
\* no signal, IsRunning() becomes false.
C25_ExitNoticed ==
    (running /\ cmd # 0 /\ cmdProcess[cmd] # 0 /\ procState[cmdProcess[cmd]] = "exited"
        /\ LeftAlone)
        ~> (~IsRunning \/ ~LeftAlone)

====
